---- MODULE Spec2Model ----
(***************************************************************************)
(* Model of the talk-2-me pipeline: the prompt template library            *)
(* (src/core/llm/prompts.py), the PDF and TTS services (src/services) and  *)
(* the Streamlit handlers that drive them (src/ui/app.py).                 *)
(*                                                                         *)
(* A string is a sequence of segments.  A segment is one of the characters *)
(* that str.format gives a meaning to ("{", "}", ":") or a maximal run of  *)
(* other characters, written as one TLA+ string.                           *)
(***************************************************************************)
EXTENDS Integers, Sequences, FiniteSets, TLC

VARIABLES
    fmt,        \* one call of PromptTemplate.format: its inputs and its result
    templates,  \* PromptLibrary._templates
    lib,        \* the last call made on the PromptLibrary and its result
    st,         \* st.session_state of the Streamlit application
    pdf,        \* the PDFService held in st.session_state.pdf_service
    tts,        \* the TTSService held in st.session_state.tts_service
    last,       \* the last handler that ran on the session: its inputs, the
                \* requests it sent to the remote services and its outcome
    temp_files, \* number of temp_<uuid>.mp3 files in the working directory
    call        \* the last direct call of a core or service function: its
                \* inputs and its result

vars == <<fmt, templates, lib, st, pdf, tts, last, temp_files, call>>

-----------------------------------------------------------------------------
(* Bounds *)

\* longest template body drawn for a call of PromptTemplate.format
MaxBodyLen == 4
\* number of temporary audio files the synthesis calls of one run create
MaxTempFiles == 1
\* number of add_template calls made on one PromptLibrary
MaxAdds == 2

-----------------------------------------------------------------------------
(* str.format, as called with keyword arguments only *)

\* the segments template bodies are drawn from
BodyAlphabet == {"txt", "content", "research_area", "{", "}", ":"}

\* the names a caller passes values for
ArgNames == {"content", "research_area", "extra"}

\* the values a caller passes: plain text, and text that itself holds braces
ArgValues == {<<"v">>, <<"{", "content", "}">>}

RECURSIVE SeqsUpTo(_, _)
SeqsUpTo(S, n) ==
    IF n = 0 THEN {<<>>}
    ELSE LET shorter == SeqsUpTo(S, n - 1)
         IN  shorter \cup {Append(s, x) : s \in {t \in shorter : Len(t) = n - 1}, x \in S}

Range(s) == {s[i] : i \in 1..Len(s)}

\* results of str.format
FmtOk(out) == [kind |-> "ok", out |-> out, msg |-> "", name |-> <<>>]
FmtKeyError(name) == [kind |-> "KeyError", out |-> <<>>, msg |-> "", name |-> name]
FmtIndexError == [kind |-> "IndexError", out |-> <<>>, msg |-> "", name |-> <<>>]
FmtValueError == [kind |-> "ValueError", out |-> <<>>, msg |-> "format string", name |-> <<>>]

\* index of the "}" that closes the field opened just before b[j], 0 if none
RECURSIVE MatchClose(_, _, _)
MatchClose(b, j, depth) ==
    IF j > Len(b) THEN 0
    ELSE IF b[j] = "{" THEN MatchClose(b, j + 1, depth + 1)
    ELSE IF b[j] = "}" THEN (IF depth = 1 THEN j ELSE MatchClose(b, j + 1, depth - 1))
    ELSE MatchClose(b, j + 1, depth)

\* index of the first ":" of s at or after i, Len(s) + 1 if none
RECURSIVE FirstColon(_, _)
FirstColon(s, i) ==
    IF i > Len(s) THEN Len(s) + 1
    ELSE IF s[i] = ":" THEN i
    ELSE FirstColon(s, i + 1)

FieldName(inner) == SubSeq(inner, 1, FirstColon(inner, 1) - 1)
FieldSpec(inner) == SubSeq(inner, FirstColon(inner, 1) + 1, Len(inner))

\* the lookup of a field name among the keyword arguments
LookupMissing(name, kw) == Len(name) # 1 \/ name[1] \notin DOMAIN kw

\* str.format(**kw) on b from position i; rec is the nesting depth left for
\* format specs (2 at the top level), out the text produced so far
RECURSIVE StrFormat(_, _, _, _, _)
StrFormat(b, i, kw, rec, out) ==
    IF i > Len(b) THEN FmtOk(out)
    ELSE IF b[i] = "{" THEN
        IF i < Len(b) /\ b[i + 1] = "{" THEN StrFormat(b, i + 2, kw, rec, Append(out, "{"))
        ELSE LET j == MatchClose(b, i + 1, 1)
             IN  IF j = 0 \/ rec = 0 THEN FmtValueError
                 ELSE LET inner == SubSeq(b, i + 1, j - 1)
                          name == FieldName(inner)
                          spec == FieldSpec(inner)
                      IN  IF "{" \in Range(name) \/ "}" \in Range(name) THEN FmtValueError
                          ELSE IF name = <<>> THEN FmtIndexError
                          ELSE IF LookupMissing(name, kw) THEN FmtKeyError(name)
                          ELSE LET sp == StrFormat(spec, 1, kw, rec - 1, <<>>)
                               IN  IF sp.kind # "ok" THEN sp
                                   ELSE IF sp.out # <<>> THEN FmtValueError
                                   ELSE StrFormat(b, j + 1, kw, rec, out \o kw[name[1]])
    ELSE IF b[i] = "}" THEN
        IF i < Len(b) /\ b[i + 1] = "}" THEN StrFormat(b, i + 2, kw, rec, Append(out, "}"))
        ELSE FmtValueError
    ELSE StrFormat(b, i + 1, kw, rec, Append(out, b[i]))

-----------------------------------------------------------------------------
(* PromptTemplate *)

PromptTemplate(template, description, parameters) ==
    [template |-> template, description |-> description, parameters |-> parameters]

\* PromptTemplate.format without its except clause: the KeyError escapes
PromptTemplate_format_unwrapped(t, kw) == StrFormat(t.template, 1, kw, 2, <<>>)

\* PromptTemplate.format that rejects a value the parameters mapping does not list
PromptTemplate_format_strict(t, kw) ==
    LET r == StrFormat(t.template, 1, kw, 2, <<>>)
    IN  IF DOMAIN kw \ DOMAIN t.parameters # {}
        THEN [kind |-> "TypeError", out |-> <<>>, msg |-> "unexpected keyword argument", name |-> <<>>]
        ELSE IF r.kind = "KeyError"
        THEN [kind |-> "ValueError", out |-> <<>>,
              msg |-> "Missing required parameter", name |-> r.name]
        ELSE r

\* PromptTemplate.format: a KeyError of str.format becomes a ValueError that
\* names the parameter, every other outcome is passed on
PromptTemplate_format(t, kw) ==
    LET r == StrFormat(t.template, 1, kw, 2, <<>>)
    IN  IF r.kind = "KeyError"
        THEN [kind |-> "ValueError", out |-> <<>>,
              msg |-> "Missing required parameter", name |-> r.name]
        ELSE r

-----------------------------------------------------------------------------
(* PromptType and the templates PromptLibrary.__init__ registers *)

\* a member of the PromptType enumeration of src/core/llm/prompts.py
PT(n) == <<"prompts.PromptType", n>>

PromptTypeNames ==
    {"TEXT_EXTRACTION", "RESEARCH_SUMMARY", "METHODOLOGY_ANALYSIS", "LITERATURE_REVIEW",
     "KEY_FINDINGS", "CRITICAL_ANALYSIS", "FUTURE_RESEARCH", "QUICK_REVIEW",
     "BIBLIOGRAPHY", "CHAPTER_BREAKDOWN", "STUDY_GUIDE", "APA_CITATION"}

PromptType == {PT(n) : n \in PromptTypeNames}

\* the members of the second PromptType enumeration, src/core/llm/prompt_types.py;
\* members of two Enum classes are never equal, whatever their names
UiPromptTypeNames ==
    {"TEXT_EXTRACTION", "RESEARCH_SUMMARY", "METHODOLOGY_ANALYSIS", "LITERATURE_REVIEW",
     "KEY_FINDINGS", "CRITICAL_ANALYSIS", "FUTURE_RESEARCH", "QUICK_REVIEW", "BIBLIOGRAPHY"}

UiPT(n) == <<"prompt_types.PromptType", n>>

\* the enumeration that pdf_service.py and app.py import as PromptType
UiPromptType == {UiPT(n) : n \in UiPromptTypeNames}

\* the template bodies: the first run of prose is written as the body's first
\* line, every later run of prose as "txt"
Body_TEXT_EXTRACTION ==
    <<"Extract and structure the text content from this document.", "{", "content", "}">>
Body_RESEARCH_SUMMARY ==
    <<"Create a comprehensive research summary following this structure:",
      "{", "research_area", "}", "txt", "{", "research_area", "}", "txt", "{", "content", "}">>
Body_KEY_FINDINGS ==
    <<"Extract and analyze the key findings from this research:",
      "{", "research_area", "}", "txt", "{", "content", "}">>
Body_CRITICAL_ANALYSIS ==
    <<"Provide a critical analysis of this research:",
      "{", "research_area", "}", "txt", "{", "content", "}">>
Body_METHODOLOGY_ANALYSIS ==
    <<"Provide a detailed analysis of the research methodology:", "{", "content", "}">>
Body_QUICK_REVIEW ==
    <<"You are an expert scientific researcher", "{", "content", "}">>
Body_LITERATURE_REVIEW ==
    <<"Create a literature review analysis",
      "{", "research_area", "}", "txt", "{", "content", "}">>
Body_BIBLIOGRAPHY ==
    <<"Extract and analyze the bibliography in strict JSON format:",
      "{", "\"references\"", ":", "txt",
          "{", "\"citation\"", ":", "txt", "{", "research_area", "}", "txt", "}", "txt",
          "{", "\"most_cited\"", ":", "txt", "}", "txt",
      "}", "txt", "{", "research_area", "}", "txt", "{", "content", "}">>
Body_FUTURE_RESEARCH ==
    <<"Identify and analyze future research directions based on this paper:",
      "{", "research_area", "}", "txt", "{", "content", "}">>
Body_CHAPTER_BREAKDOWN ==
    <<"Analyze this document and create a logical chapter breakdown:",
      "{", "{", "txt", "{", "{", "txt", "}", "}", "txt", "}", "}", "txt", "{", "content", "}">>
Body_STUDY_GUIDE ==
    <<"Create a comprehensive study guide for this document:", "{", "content", "}">>
Body_APA_CITATION ==
    <<"Generate an APA citation in structured JSON format for the given content.",
      "{", "\"annotatedBibliography\"", ":", "txt", "{", "\"author\"", ":", "txt", "}", "txt", "}",
      "txt", "{", "content", "}">>

ParamsContent(purpose) == [n \in {"content"} |-> purpose]
ParamsContentArea(purpose, area) ==
    [n \in {"content", "research_area"} |-> IF n = "content" THEN purpose ELSE area]

\* PromptLibrary.__init__: the dictionary _templates
PromptLibrary_init ==
    [k \in PromptType |->
        CASE k = PT("TEXT_EXTRACTION") ->
                PromptTemplate(Body_TEXT_EXTRACTION,
                    "Extracts clean, structured text from documents",
                    ParamsContent("The document to process"))
          [] k = PT("RESEARCH_SUMMARY") ->
                PromptTemplate(Body_RESEARCH_SUMMARY,
                    "Creates a structured research summary with field-specific focus",
                    ParamsContentArea("The paper to analyze", "Your specific research area/focus"))
          [] k = PT("KEY_FINDINGS") ->
                PromptTemplate(Body_KEY_FINDINGS,
                    "Extracts and analyzes key research findings",
                    ParamsContentArea("The paper to analyze", "Your specific research area"))
          [] k = PT("CRITICAL_ANALYSIS") ->
                PromptTemplate(Body_CRITICAL_ANALYSIS,
                    "Provides critical analysis of research strengths and weaknesses",
                    ParamsContentArea("The paper to analyze", "Your specific research area"))
          [] k = PT("METHODOLOGY_ANALYSIS") ->
                PromptTemplate(Body_METHODOLOGY_ANALYSIS,
                    "Detailed analysis of research methodology for potential replication",
                    ParamsContent("The methodology to analyze"))
          [] k = PT("QUICK_REVIEW") ->
                PromptTemplate(Body_QUICK_REVIEW,
                    "Provides quick, focused analysis of key aspects of a research paper",
                    ParamsContent("The paper to analyze"))
          [] k = PT("LITERATURE_REVIEW") ->
                PromptTemplate(Body_LITERATURE_REVIEW,
                    "Analyzes paper's place in literature and research landscape",
                    ParamsContentArea("The paper to analyze", "Your specific research area"))
          [] k = PT("BIBLIOGRAPHY") ->
                PromptTemplate(Body_BIBLIOGRAPHY,
                    "Extracts and analyzes bibliography in structured JSON format",
                    ParamsContentArea("The paper to analyze", "Your specific research area"))
          [] k = PT("FUTURE_RESEARCH") ->
                PromptTemplate(Body_FUTURE_RESEARCH,
                    "Identifies future research directions and opportunities",
                    ParamsContentArea("The paper to analyze", "Your specific research area"))
          [] k = PT("CHAPTER_BREAKDOWN") ->
                PromptTemplate(Body_CHAPTER_BREAKDOWN,
                    "Creates logical chapter breakdown with navigation markers",
                    ParamsContent("The document to analyze"))
          [] k = PT("STUDY_GUIDE") ->
                PromptTemplate(Body_STUDY_GUIDE,
                    "Generates comprehensive study guide with practice materials",
                    ParamsContent("The document to analyze"))
          [] k = PT("APA_CITATION") ->
                PromptTemplate(Body_APA_CITATION,
                    "Generates structured JSON format APA citations",
                    ParamsContent("The source content to create a citation for"))]

\* PromptLibrary.list_templates: a dictionary written out in the method
PromptLibrary_list_templates(tpls) ==
    [k \in PromptType \ {PT("APA_CITATION")} |->
        CASE k = PT("TEXT_EXTRACTION") -> "Extract clean, structured text from documents"
          [] k = PT("RESEARCH_SUMMARY") -> "Comprehensive research summary with key findings"
          [] k = PT("METHODOLOGY_ANALYSIS") -> "Detailed analysis of research methodology"
          [] k = PT("QUICK_REVIEW") -> "Quick, actionable summary for busy researchers"
          [] k = PT("LITERATURE_REVIEW") -> "Analysis of paper's place in research landscape"
          [] k = PT("BIBLIOGRAPHY") -> "Extract and analyze bibliography in structured JSON format"
          [] k = PT("KEY_FINDINGS") -> "Extract key findings and contributions"
          [] k = PT("CRITICAL_ANALYSIS") -> "Critical analysis of strengths and weaknesses"
          [] k = PT("FUTURE_RESEARCH") -> "Identify future research directions"
          [] k = PT("CHAPTER_BREAKDOWN") -> "Create logical chapter breakdown with navigation markers"
          [] k = PT("STUDY_GUIDE") -> "Generate comprehensive study guide with practice materials"]

\* PromptLibrary.get_template
GetRaises(tpls, k) == k \notin DOMAIN tpls

\* get_template written with dict.get and a default entry
PromptLibrary_get_template_default(tpls, k) ==
    IF GetRaises(tpls, k)
    THEN [outcome |-> "ok", template |-> tpls[PT("QUICK_REVIEW")]]
    ELSE [outcome |-> "ok", template |-> tpls[k]]

PromptLibrary_get_template(tpls, k) ==
    IF GetRaises(tpls, k)
    THEN [outcome |-> "ValueError: Unknown prompt type",
          template |-> PromptTemplate(<<>>, "", [n \in {} |-> ""])]
    ELSE [outcome |-> "ok", template |-> tpls[k]]

\* add_template written with dict.setdefault: a registered entry is kept
PromptLibrary_add_template_setdefault(tpls, k, x) ==
    [j \in DOMAIN tpls \cup {k} |-> IF j \in DOMAIN tpls THEN tpls[j] ELSE x]

\* PromptLibrary.add_template: self._templates[prompt_type] = template
PromptLibrary_add_template(tpls, k, x) ==
    [j \in DOMAIN tpls \cup {k} |-> IF j = k THEN x ELSE tpls[j]]

-----------------------------------------------------------------------------
(* Calls of PromptTemplate.format on drawn inputs *)

NoParameters == [n \in {} |-> ""]
NoKwargs == [n \in {} |-> <<>>]
NoTemplate == PromptTemplate(<<>>, "", NoParameters)
FmtPending == [kind |-> "pending", out |-> <<>>, msg |-> "", name |-> <<>>]

\* the fixture of tests/test_prompts.py
TestTemplate ==
    PromptTemplate(<<"Analyze this: ", "{", "content", "}", " for ", "{", "research_area", "}">>,
                   "Test template",
                   ParamsContentArea("Content to analyze", "Research area"))

\* every assignment of values to a subset of the names
Kwargs(names, values) == UNION {[S -> values] : S \in SUBSET names}

DrawnTemplates ==
    {PromptTemplate(b, "drawn", NoParameters) : b \in SeqsUpTo(BodyAlphabet, MaxBodyLen)}
        \cup {TestTemplate}
        \cup {PromptLibrary_init[k] : k \in PromptType}

FmtIdle == [template |-> NoTemplate, kwargs |-> NoKwargs, result |-> FmtPending]

\* template.format(**kwargs)
ApplyFormat ==
    /\ fmt.result.kind = "pending"
    /\ fmt.template # NoTemplate
    /\ fmt' = [fmt EXCEPT !.result = PromptTemplate_format(fmt.template, fmt.kwargs)]
    /\ UNCHANGED <<templates, lib, st, pdf, tts, last, temp_files, call>>

-----------------------------------------------------------------------------
(* Calls on a PromptLibrary *)

\* keys that are not members of prompts.PromptType: the string of
\* test_prompt_library_invalid_type and the members of prompt_types.PromptType
OtherKeys == {<<"str", "invalid_type">>, UiPT("QUICK_REVIEW"), UiPT("BIBLIOGRAPHY")}

\* a template whose parameters mapping does not name the placeholder of its body
InconsistentTemplate ==
    PromptTemplate(<<"About ", "{", "extra", "}">>, "Inconsistent template",
                   ParamsContent("Content to analyze"))

\* the calls of add_template that are explored
AddKeys == {PT("QUICK_REVIEW"), PT("APA_CITATION"), <<"str", "invalid_type">>}
AddTemplates == {TestTemplate, InconsistentTemplate}

NoListing == [k \in {} |-> ""]

LibIdle ==
    [op |-> "none", key |-> <<"str", "">>, template |-> NoTemplate, kwargs |-> NoKwargs,
     outcome |-> "none", result |-> FmtPending, listing |-> NoListing, n_adds |-> 0]

\* prompts.get_template(k)
GetTemplate(k) ==
    \E r \in {PromptLibrary_get_template(templates, k)} :
        /\ lib' = [LibIdle EXCEPT !.op = "get_template", !.key = k, !.n_adds = lib.n_adds,
                                  !.outcome = r.outcome, !.template = r.template]
        /\ UNCHANGED <<fmt, templates, st, pdf, tts, last, temp_files, call>>

\* prompts.add_template(k, x)
AddTemplate(k, x) ==
    /\ lib.n_adds < MaxAdds
    /\ templates' = PromptLibrary_add_template(templates, k, x)
    /\ lib' = [LibIdle EXCEPT !.op = "add_template", !.key = k, !.n_adds = lib.n_adds + 1,
                              !.outcome = "ok", !.template = x]
    /\ UNCHANGED <<fmt, st, pdf, tts, last, temp_files, call>>

\* prompts.list_templates()
ListTemplates ==
    /\ lib' = [LibIdle EXCEPT !.op = "list_templates", !.n_adds = lib.n_adds,
                              !.outcome = "ok",
                              !.listing = PromptLibrary_list_templates(templates)]
    /\ UNCHANGED <<fmt, templates, st, pdf, tts, last, temp_files, call>>

\* prompts.get_template(k).format(**kw)
FormatTemplate(k, kw) ==
    \E r \in {PromptLibrary_get_template(templates, k)} :
        /\ lib' = [LibIdle EXCEPT !.op = "format", !.key = k, !.n_adds = lib.n_adds,
                                  !.outcome = r.outcome, !.template = r.template,
                                  !.kwargs = kw,
                                  !.result = IF r.outcome = "ok"
                                             THEN PromptTemplate_format(r.template, kw)
                                             ELSE FmtPending]
        /\ UNCHANGED <<fmt, templates, st, pdf, tts, last, temp_files, call>>

-----------------------------------------------------------------------------
(* Optional values, documents and texts *)

\* Optional[str]: Python's None, and a string
None == [some |-> FALSE, v |-> <<>>]
Some(v) == [some |-> TRUE, v |-> v]

\* the documents a user uploads, each given by the texts PyPDF2 extracts from
\* its pages; the text of d2 holds braces, d3 has pages and no text
Docs == {"d1", "d2", "d3"}

DocPages(d) ==
    CASE d = "d1" -> << <<"Page1: Hello world">>, <<"Page2: Goodbye">> >>
      [] d = "d2" -> << <<"f(x) = ", "{", "x", "}">> >>
      [] d = "d3" -> << <<" ">>, <<>> >>

\* no document: the value of PDFService._pdf_document before process_file
NoDoc == "None"
\* no api key in the environment: os.getenv returns None
NoKey == "None"

\* "\n".join(text_content)
RECURSIVE Join(_)
Join(pages) ==
    IF Len(pages) = 0 THEN <<>>
    ELSE IF Len(pages) = 1 THEN pages[1]
    ELSE pages[1] \o <<"\n">> \o Join(Tail(pages))

\* not extracted_text
StripIsEmpty_nostrip(text) == text = <<>>

\* not extracted_text.strip()
StripIsEmpty(text) == \A i \in 1..Len(text) : text[i] \in {" ", "\n", "\t", ""}

\* what PyPDF2.PdfReader gives for an uploaded document of the session
Reader(d) == [is_encrypted |-> FALSE, pages |-> DocPages(d)]

\* a document handed to a function: a path, or a readable stream; consumed
\* tells that the stream has been read to its end
Upload(d) == [kind |-> "stream", doc |-> d, consumed |-> FALSE]
PathTo(d) == [kind |-> "path", doc |-> d, consumed |-> FALSE]

\* what can be passed in place of a document: None, and an object that is
\* neither a path nor has a read method
NoFile == [kind |-> "none", doc |-> NoDoc, consumed |-> FALSE]
NotAFile == [kind |-> "object", doc |-> NoDoc, consumed |-> FALSE]

\* file.read(): all the bytes of the document, or none at the stream's end
EmptyBytes == "empty"
Read(file) == IF file.consumed THEN EmptyBytes ELSE file.doc

-----------------------------------------------------------------------------
(* The remote services *)

\* what a call of the generation service can do: return text, return empty
\* text, or fail
RemoteOutcomes == {"text", "empty", "error"}

\* a generate_content call made without a key is refused
LlmResponse(api_key, remote) == IF api_key = NoKey THEN "error" ELSE remote

\* the text of a successful generate_content call
GeneratedText(prompt) == <<"generated from: ">> \o prompt

\* the instruction LLMExtractor sends with the document
extraction_prompt == <<"Extract and structure all content from this PDF.">>

\* the audio and the alignment of a successful synthesis call
AudioOf(text) == <<"audio of: ">> \o text
AlignmentOf(text) == <<"alignment of: ">> \o text

\* what a request to the synthesis service can do: stream the audio, fail
\* (raise_for_status), or stream a body that cannot be read to its end
TtsRemoteOutcomes == {"ok", "error", "stream_error"}

\* a request without the xi-api-key header is rejected by the service
TtsResponse(api_key, remote) == IF api_key = NoKey THEN "error" ELSE remote

-----------------------------------------------------------------------------
(* ElevenLabsService (src/core/tts/service.py) *)

\* ElevenLabsService.text_to_speech: the request is posted, then the file
\* temp_<uuid>.mp3 is created and the chunks written to it; created counts
\* the files the call leaves in the working directory
ElevenLabsService_text_to_speech(api_key, text, remote) ==
    LET response == TtsResponse(api_key, remote)
    IN  IF response = "ok"
        THEN [outcome |-> "ok", audio |-> AudioOf(text), timestamps |-> <<>>,
              request |-> Some(text), attempts |-> 1, created |-> 1]
        ELSE [outcome |-> "TTSAPIError", audio |-> <<>>, timestamps |-> <<>>,
              request |-> Some(text), attempts |-> 1,
              created |-> IF response = "stream_error" THEN 1 ELSE 0]

\* ElevenLabsService.text_to_speech_with_timestamps
ElevenLabsService_text_to_speech_with_timestamps(api_key, text, remote) ==
    LET response == TtsResponse(api_key, remote)
    IN  IF response = "ok"
        THEN [outcome |-> "ok", audio |-> AudioOf(text), timestamps |-> AlignmentOf(text),
              request |-> Some(text), attempts |-> 1, created |-> 1]
        ELSE [outcome |-> "TTSAPIError", audio |-> <<>>, timestamps |-> <<>>,
              request |-> Some(text), attempts |-> 1,
              created |-> IF response = "stream_error" THEN 1 ELSE 0]

\* base64.b64decode on the encoded fragments that are drawn: an encoded
\* fragment is a sequence of 4-character groups, a group decodes to 1..3 bytes
B64Group(g) ==
    CASE g = "QUJD" -> <<65, 66, 67>>
      [] g = "QUI=" -> <<65, 66>>
      [] g = "Wg==" -> <<90>>

RECURSIVE b64decode(_)
b64decode(s) == IF s = <<>> THEN <<>> ELSE B64Group(Head(s)) \o b64decode(Tail(s))

\* a line of response.iter_lines(): an empty line, or the JSON object of a
\* chunk, whose keys "audio_base64" and "alignment" may each be missing
BlankLine == [blank |-> TRUE, audio_base64 |-> None, alignment |-> None]
Chunk(audio_base64, alignment) ==
    [blank |-> FALSE, audio_base64 |-> audio_base64, alignment |-> alignment]

\* the body of the loop over the lines, with the alignment put in front
ReadLine_prepend(acc, line) ==
    IF line.blank THEN acc
    ELSE [audio |-> IF line.audio_base64.some
                    THEN acc.audio \o b64decode(line.audio_base64.v)
                    ELSE acc.audio,
          timestamps |-> IF line.alignment.some /\ line.alignment.v # <<>>
                         THEN line.alignment.v \o acc.timestamps
                         ELSE acc.timestamps]

\* the body of the loop over the lines: f.write(audio_bytes) appends to the
\* file, timestamps.extend(...) appends to the list
ReadLine(acc, line) ==
    IF line.blank THEN acc
    ELSE [audio |-> IF line.audio_base64.some
                    THEN acc.audio \o b64decode(line.audio_base64.v)
                    ELSE acc.audio,
          timestamps |-> IF line.alignment.some /\ line.alignment.v # <<>>
                         THEN acc.timestamps \o line.alignment.v
                         ELSE acc.timestamps]

\* for line in response.iter_lines(): ...
RECURSIVE ReadLines(_, _)
ReadLines(lines, acc) ==
    IF lines = <<>> THEN acc ELSE ReadLines(Tail(lines), ReadLine(acc, Head(lines)))

\* ElevenLabsService.text_to_speech_with_timestamps on a response that
\* streams the given lines: the file that was written is opened for reading
\* and returned with {"timestamps": timestamps}
ElevenLabsService_text_to_speech_with_timestamps_lines(api_key, text, lines) ==
    LET got == ReadLines(lines, [audio |-> <<>>, timestamps |-> <<>>])
    IN  IF TtsResponse(api_key, "ok") = "ok"
        THEN [outcome |-> "ok", audio |-> got.audio, timestamps |-> got.timestamps,
              request |-> Some(text), attempts |-> 1, created |-> 1]
        ELSE [outcome |-> "TTSAPIError", audio |-> <<>>, timestamps |-> <<>>,
              request |-> Some(text), attempts |-> 1, created |-> 0]

-----------------------------------------------------------------------------
(* GeminiService *)

\* messages of the LLMAPIError that process_text and process_pdf raise
EmptyResponseMsg == "Empty response from Gemini"
RemoteFailureMsg == "API Error"
FormatFailureMsg == "format"

\* process_text without the check of response.text
GeminiService_process_text_unchecked(text, prompt_template, remote) ==
    LET f == StrFormat(prompt_template, 1, [n \in {"text"} |-> text], 2, <<>>)
    IN  IF f.kind # "ok"
        THEN [outcome |-> "LLMAPIError", msg |-> FormatFailureMsg, text |-> <<>>, request |-> None, attempts |-> 0]
        ELSE IF remote = "error"
        THEN [outcome |-> "LLMAPIError", msg |-> RemoteFailureMsg, text |-> <<>>,
              request |-> Some(f.out), attempts |-> 1]
        ELSE [outcome |-> "ok", msg |-> "", request |-> Some(f.out), attempts |-> 1,
              text |-> IF remote = "text" THEN GeneratedText(f.out) ELSE <<>>]

\* process_text with a second generate_content call after a failed one
GeminiService_process_text_retrying(text, prompt_template, remote) ==
    LET f == StrFormat(prompt_template, 1, [n \in {"text"} |-> text], 2, <<>>)
    IN  IF f.kind # "ok"
        THEN [outcome |-> "LLMAPIError", msg |-> FormatFailureMsg, text |-> <<>>,
              request |-> None, attempts |-> 0]
        ELSE IF remote = "text"
        THEN [outcome |-> "ok", msg |-> "", text |-> GeneratedText(f.out),
              request |-> Some(f.out), attempts |-> 1]
        ELSE [outcome |-> "LLMAPIError", text |-> <<>>, request |-> Some(f.out), attempts |-> 2,
              msg |-> IF remote = "empty" THEN EmptyResponseMsg ELSE RemoteFailureMsg]

\* GeminiService.process_text: the prompt is formatted once more with
\* text=...; the LLMError of the empty response is raised inside the try
\* block, so every failure leaves as LLMAPIError.  attempts counts the calls
\* of generate_content (of session.post in ElevenLabsService).
GeminiService_process_text(text, prompt_template, remote) ==
    LET f == StrFormat(prompt_template, 1, [n \in {"text"} |-> text], 2, <<>>)
    IN  IF f.kind # "ok"
        THEN [outcome |-> "LLMAPIError", msg |-> FormatFailureMsg, text |-> <<>>, request |-> None, attempts |-> 0]
        ELSE IF remote = "text"
        THEN [outcome |-> "ok", msg |-> "", text |-> GeneratedText(f.out), request |-> Some(f.out), attempts |-> 1]
        ELSE [outcome |-> "LLMAPIError", text |-> <<>>, request |-> Some(f.out), attempts |-> 1,
              msg |-> IF remote = "empty" THEN EmptyResponseMsg ELSE RemoteFailureMsg]

\* GeminiService.process_pdf on the bytes file.read() gave; prompt_template
\* is None or a string, and the TEXT_EXTRACTION template formatted with empty
\* content stands in for a missing or empty one
GeminiService_process_pdf(data, prompt_template, remote) ==
    LET got == PromptLibrary_get_template(templates, PT("TEXT_EXTRACTION"))
        default == PromptTemplate_format(got.template, [n \in {"content"} |-> <<>>])
        use_default == ~prompt_template.some \/ prompt_template.v = <<>>
        prompt == IF use_default THEN default.out ELSE prompt_template.v
    IN  IF use_default /\ (got.outcome # "ok" \/ default.kind # "ok")
        THEN [outcome |-> "LLMAPIError", msg |-> FormatFailureMsg, text |-> <<>>,
              request |-> None, attempts |-> 0, data |-> "none"]
        ELSE IF remote = "text"
        THEN [outcome |-> "ok", msg |-> "", text |-> GeneratedText(prompt),
              request |-> Some(prompt), attempts |-> 1, data |-> data]
        ELSE [outcome |-> "LLMAPIError", text |-> <<>>, request |-> Some(prompt), attempts |-> 1, data |-> data,
              msg |-> IF remote = "empty" THEN EmptyResponseMsg ELSE RemoteFailureMsg]

-----------------------------------------------------------------------------
(* Extractors and PDFProcessor *)

\* str.lower() on the strategy keys that are drawn
Lower(strategy) == IF strategy = "LLM" THEN "llm" ELSE strategy

\* create_extractor, as PDFProcessor.__init__ calls it (api_key always
\* passed, None when there is none); the LLM extractor keeps the key
create_extractor(strategy, api_key) ==
    IF Lower(strategy) = "pypdf2"
    THEN [outcome |-> "ok", extractor |-> "PyPDF2Extractor", api_key |-> NoKey]
    ELSE IF Lower(strategy) = "llm"
    THEN [outcome |-> "ok", extractor |-> "LLMExtractor", api_key |-> api_key]
    ELSE [outcome |-> "ValueError: Unknown extraction strategy", extractor |-> "None",
          api_key |-> NoKey]

\* extract_text without the is_encrypted check
PyPDF2Extractor_extract_text_nocheck(reader) ==
    LET extracted_text == Join(reader.pages)
    IN  IF StripIsEmpty(extracted_text)
        THEN [outcome |-> "TextExtractionError", text |-> <<>>, request |-> None,
              data |-> "none", pages_read |-> Len(reader.pages)]
        ELSE [outcome |-> "ok", text |-> extracted_text, request |-> None,
              data |-> "none", pages_read |-> Len(reader.pages)]

\* PyPDF2Extractor.extract_text; reader is what PyPDF2.PdfReader(file) gives,
\* pages_read counts the pages whose extract_text was called
PyPDF2Extractor_extract_text(reader) ==
    LET extracted_text == Join(reader.pages)
    IN  IF reader.is_encrypted
        THEN [outcome |-> "TextExtractionError", text |-> <<>>, request |-> None,
              data |-> "none", pages_read |-> 0]
        ELSE IF StripIsEmpty(extracted_text)
        THEN [outcome |-> "TextExtractionError", text |-> <<>>, request |-> None,
              data |-> "none", pages_read |-> Len(reader.pages)]
        ELSE [outcome |-> "ok", text |-> extracted_text, request |-> None,
              data |-> "none", pages_read |-> Len(reader.pages)]

\* LLMExtractor.extract_text on a readable stream: LLMAPIError becomes
\* TextExtractionError
LLMExtractor_extract_text(api_key, file, remote) ==
    LET r == GeminiService_process_pdf(Read(file), Some(extraction_prompt),
                                       LlmResponse(api_key, remote))
    IN  [r EXCEPT !.outcome = IF r.outcome = "LLMAPIError" THEN "TextExtractionError" ELSE @]

\* PDFProcessor.__init__: the extractor is made at construction
PDFProcessor_init(extraction_strategy, llm_api_key) ==
    create_extractor(extraction_strategy, llm_api_key)

\* the stream load_pdf hands to the extractor: a path is opened, a stream is
\* passed on as it is
OpenedStream(file) == IF file.kind = "path" THEN Upload(file.doc) ELSE file

\* self.extractor.extract_text(file)
Extractor_extract_text(processor, stream, remote) ==
    IF processor.extractor = "PyPDF2Extractor"
    THEN PyPDF2Extractor_extract_text(Reader(stream.doc))
    ELSE LLMExtractor_extract_text(processor.api_key, stream, remote)

\* what load_pdf returns or raises after the call r of the extractor
AfterExtraction(r) ==
    [outcome |-> r.outcome, text |-> r.text, request |-> r.request, data |-> r.data,
     extracted |-> TRUE]

\* load_pdf without the clause that raises ValidationError again as it is
PDFProcessor_load_pdf_wrapping(processor, file, remote) ==
    IF file.kind = "none"
    THEN [outcome |-> "ValidationError", text |-> <<>>, request |-> None,
          data |-> "none", extracted |-> FALSE]
    ELSE IF file.kind = "object"
    THEN [outcome |-> "TextExtractionError", text |-> <<>>, request |-> None,
          data |-> "none", extracted |-> FALSE]
    ELSE AfterExtraction(Extractor_extract_text(processor, OpenedStream(file), remote))

\* PDFProcessor.load_pdf: None is refused at once; a path is opened, an
\* object without read is refused, a stream is passed on to the extractor as
\* it is.  ValidationError is a PDFAudioError, which handle_exceptions raises
\* again as it is, as it does the TextExtractionError of the extractor.
\* extracted tells whether extractor.extract_text was called.
PDFProcessor_load_pdf(processor, file, remote) ==
    IF file.kind \in {"none", "object"}
    THEN [outcome |-> "ValidationError", text |-> <<>>, request |-> None,
          data |-> "none", extracted |-> FALSE]
    ELSE AfterExtraction(Extractor_extract_text(processor, OpenedStream(file), remote))

-----------------------------------------------------------------------------
(* PDFService *)

\* PDFService.__init__
PDFService_init(key) ==
    [llm_api_key |-> key, processor |-> "PyPDF2Extractor", current_file |-> "None",
     extracted_text |-> None, pdf_document |-> NoDoc, total_pages |-> 0,
     current_template |-> UiPT("QUICK_REVIEW")]

\* PDFService.process_file.  The document is opened for rendering and the
\* page count stored before the strategy is looked at; file.read() leaves a
\* stream at its end, and that stream is what load_pdf is given.  A file that
\* is no path is read at once: on None, and on any object without a read
\* method, file.read() raises AttributeError, which is raised again as it is.
PDFService_process_file(svc, file, strategy, remote) ==
    LET d == file.doc
        opened == [svc EXCEPT !.pdf_document = d, !.total_pages = Len(DocPages(d))]
        made == PDFProcessor_init(strategy, IF strategy = "llm" THEN svc.llm_api_key ELSE NoKey)
        left == IF file.kind = "path" THEN file ELSE [file EXCEPT !.consumed = TRUE]
    IN  IF file.kind \in {"none", "object"}
        THEN [svc |-> svc, outcome |-> "AttributeError",
              text |-> <<>>, request |-> None, data |-> "none", file |-> file]
        ELSE IF strategy = "llm" /\ svc.llm_api_key = NoKey
        THEN [svc |-> opened, outcome |-> "ValueError: GEMINI_API_KEY not found",
              text |-> <<>>, request |-> None, data |-> "none", file |-> left]
        ELSE IF made.outcome # "ok"
        THEN [svc |-> opened, outcome |-> made.outcome,
              text |-> <<>>, request |-> None, data |-> "none", file |-> left]
        ELSE LET withp == [opened EXCEPT !.processor = made.extractor]
                 r == PDFProcessor_load_pdf(made, left, remote)
             IN  [svc |-> IF r.outcome = "ok"
                          THEN [withp EXCEPT !.extracted_text = Some(r.text)]
                          ELSE withp,
                  outcome |-> r.outcome, text |-> r.text,
                  request |-> r.request, data |-> r.data, file |-> left]

\* PDFService.get_extracted_text
PDFService_get_extracted_text(svc) == svc.extracted_text

\* PDFService.get_total_pages
PDFService_get_total_pages(svc) ==
    IF svc.pdf_document = NoDoc
    THEN [outcome |-> "PDFAudioError", value |-> 0]
    ELSE [outcome |-> "ok", value |-> svc.total_pages]

\* PDFService.get_page_image: every failure is raised as PDFAudioError
PDFService_get_page_image(svc, page_number) ==
    IF svc.pdf_document = NoDoc \/ page_number < 1 \/ page_number > svc.total_pages
    THEN [outcome |-> "PDFAudioError", page |-> 0]
    ELSE [outcome |-> "ok", page |-> page_number]

\* PDFService.clear
PDFService_clear(svc) ==
    [svc EXCEPT !.pdf_document = NoDoc, !.total_pages = 0,
                !.current_file = "None", !.extracted_text = None]

\* PDFService.analyze_text
PDFService_analyze_text(svc, text, template_type, research_area, remote) ==
    LET got == PromptLibrary_get_template(templates, template_type)
        formatted_prompt ==
            PromptTemplate_format(got.template,
                [n \in {"content", "research_area"} |->
                    IF n = "content" THEN text
                    ELSE IF research_area = <<>> THEN <<"general research">>
                    ELSE research_area])
    IN  IF got.outcome # "ok"
        THEN [outcome |-> got.outcome, text |-> <<>>, prompt |-> None, request |-> None]
        ELSE IF formatted_prompt.kind # "ok"
        THEN [outcome |-> "ValueError: Missing required parameter", text |-> <<>>,
              prompt |-> None, request |-> None]
        ELSE LET r == GeminiService_process_text(text, formatted_prompt.out,
                                                 LlmResponse(svc.llm_api_key, remote))
             IN  [outcome |-> r.outcome, text |-> r.text,
                  prompt |-> Some(formatted_prompt.out), request |-> r.request]

-----------------------------------------------------------------------------
(* TTSService (src/core/tts_service.py) *)

\* TTSService.text_to_speech: AudioGenerationError is a PDFAudioError, which
\* handle_exceptions raises again as it is
CoreTTSService_text_to_speech(text) ==
    IF text = <<>>
    THEN [outcome |-> "AudioGenerationError", audio |-> <<>>, request |-> None]
    ELSE [outcome |-> "ok", audio |-> <<"Audio data">>, request |-> None]

-----------------------------------------------------------------------------
(* LLMService (src/core/llm_service.py), handle_exceptions and
   ProcessingService *)

\* LLMService.process_text: LLMProcessingError is a PDFAudioError
CoreLLMService_process_text(text, mode) ==
    IF text = <<>>
    THEN [outcome |-> "LLMProcessingError", text |-> <<>>]
    ELSE [outcome |-> "ok", text |-> <<"Processed text">>]

\* the kinds of src/core/exceptions.py: PDFAudioError and its subclasses
PDFAudioErrorKinds ==
    {"PDFAudioError", "PDFProcessingError", "TextExtractionError", "LLMError", "LLMAPIError",
     "LLMProcessingError", "TTSError", "TTSAPIError", "AudioGenerationError",
     "ValidationError"}

\* a wrapper that turns every exception into the generic PDFAudioError
handle_exceptions_generic(raised) ==
    IF raised = "ok" THEN [outcome |-> "ok", original_error |-> "None"]
    ELSE [outcome |-> "PDFAudioError", original_error |-> raised]

\* the wrapper of handle_exceptions on what the wrapped function raised: a
\* PDFAudioError is raised again as it is, anything else becomes a
\* PDFAudioError with original_error set
handle_exceptions(raised) ==
    IF raised = "ok" THEN [outcome |-> "ok", original_error |-> "None"]
    ELSE IF raised \in PDFAudioErrorKinds
    THEN [outcome |-> raised, original_error |-> "None"]
    ELSE [outcome |-> "PDFAudioError", original_error |-> raised]

\* what process_pdf_to_audio gives after the calls e, g and a of its three
\* stages, of which a call is made only when the one before it returned.
\* stages lists the stages that were called, raised is what the function
\* raised inside the wrapper.
PipelineResult(e, g, a) ==
    LET stages == IF e.outcome # "ok" THEN <<"extraction">>
                  ELSE IF g.outcome # "ok" THEN <<"extraction", "generation">>
                  ELSE <<"extraction", "generation", "synthesis">>
        raised == IF e.outcome # "ok" THEN e.outcome
                  ELSE IF g.outcome # "ok" THEN g.outcome
                  ELSE a.outcome
        h == handle_exceptions(raised)
    IN  [outcome |-> h.outcome, original_error |-> h.original_error, raised |-> raised,
         stages |-> stages,
         extracted |-> IF e.outcome = "ok" THEN Some(e.text) ELSE None,
         llm_input |-> IF Len(stages) >= 2 THEN Some(e.text) ELSE None,
         tts_input |-> IF Len(stages) >= 3 THEN Some(g.text) ELSE None,
         generated |-> IF Len(stages) >= 2 /\ g.outcome = "ok" THEN Some(g.text) ELSE None,
         audio |-> IF raised = "ok" THEN a.audio ELSE <<>>]

\* audio = self.tts_service.text_to_speech(processed_text, voice_id)
PipelineSynthesis(e, g) == PipelineResult(e, g, CoreTTSService_text_to_speech(g.text))

\* processed_text = self.llm_service.process_text(text, processing_mode)
PipelineGeneration(e, processing_mode) ==
    PipelineSynthesis(e, CoreLLMService_process_text(e.text, processing_mode))

\* ProcessingService.process_pdf_to_audio: PDFProcessor() extracts with
\* PyPDF2; the three calls follow each other, an exception ends the function
ProcessingService_process_pdf_to_audio(pdf_file, processing_mode) ==
    PipelineGeneration(
        PDFProcessor_load_pdf(PDFProcessor_init("pypdf2", NoKey), pdf_file, "text"),
        processing_mode)

-----------------------------------------------------------------------------
(* TTSService (src/services/tts_service.py) *)

\* TTSService.__init__
TTSService_init(key) ==
    [tts_api_key |-> key, current_audio |-> None, current_timestamps |-> None]

\* TTSService.text_to_audio: the ElevenLabs service is created with whatever
\* key the environment gave, one request is sent, the returned file is read
\* and closed; every failure is raised as TTSError.  caught is the kind of
\* the exception the except clause received ("ok" when there was none).
TTSService_text_to_audio(svc, text, with_timestamps, remote) ==
    LET r == IF with_timestamps
             THEN ElevenLabsService_text_to_speech_with_timestamps(svc.tts_api_key, text, remote)
             ELSE ElevenLabsService_text_to_speech(svc.tts_api_key, text, remote)
    IN  [outcome |-> IF r.outcome = "ok" THEN "ok" ELSE "TTSError", caught |-> r.outcome,
         audio |-> r.audio, timestamps |-> r.timestamps, request |-> r.request,
         attempts |-> r.attempts, created |-> r.created]

\* TTSService.text_to_audio(text, with_timestamps=True) on a response that
\* streams the given lines: audio_file.read() gives the bytes of the file
TTSService_text_to_audio_lines(svc, text, lines) ==
    LET r == ElevenLabsService_text_to_speech_with_timestamps_lines(svc.tts_api_key, text, lines)
    IN  [outcome |-> IF r.outcome = "ok" THEN "ok" ELSE "TTSError", caught |-> r.outcome,
         audio |-> r.audio, timestamps |-> r.timestamps, request |-> r.request,
         attempts |-> r.attempts, created |-> r.created]

\* TTSService.clear
TTSService_clear(svc) == [svc EXCEPT !.current_audio = None, !.current_timestamps = None]

-----------------------------------------------------------------------------
(* The Streamlit session (src/ui/app.py) *)

\* initialize_session_state
initialize_session_state ==
    [extracted_text |-> None, analyzed_text |-> None,
     processing_complete |-> FALSE, analysis_complete |-> FALSE,
     audio_ready |-> FALSE, audio_data |-> None, timestamps |-> None,
     audio_source |-> "Raw PDF Text", current_page |-> 1]

\* what a handler leaves in last when it has not run
LastIdle ==
    [op |-> "none", source |-> "", outcome |-> "none", ui_error |-> "",
     text |-> <<>>, prompt |-> None, llm_request |-> None, llm_data |-> "none",
     tts_request |-> None]

\* the templates the "Analysis Template" box offers: the keys of
\* available_templates, of which these are drawn
AnalyzeTypes ==
    {PT("QUICK_REVIEW"), PT("RESEARCH_SUMMARY"), PT("BIBLIOGRAPHY"), PT("CHAPTER_BREAKDOWN")}

ResearchAreas == {<<>>, <<"testing">>}

\* the "Text Extraction Method" box
UiStrategies == {"pypdf2", "llm"}

AudioSources == {"Raw PDF Text", "Analysis Results"}

\* render_ai_options without its early return
AiOptionsHidden_never(s) == FALSE

\* render_ai_options returns at once while no PDF has been processed
AiOptionsHidden(s) == ~s.processing_complete

\* render_ai_options, once analysis_complete holds, evaluates
\* PromptType.CHAPTER_BREAKDOWN on the enumeration of prompt_types.py, which
\* has no such member: the AttributeError ends the script run before the
\* audio options and before the button handlers
AnalysisSectionRaises(s) ==
    s.analysis_complete /\ "CHAPTER_BREAKDOWN" \notin UiPromptTypeNames

\* a "Generate Audio" button that is never disabled
GenerateAudioDisabled_never(s) == FALSE

\* the disabled condition of the "Generate Audio" button
GenerateAudioDisabled(s) ==
    s.audio_source = "Analysis Results" /\ ~s.analysis_complete

\* the text the "Generate Audio" handler selects
text_for_audio(s) ==
    IF s.audio_source = "Analysis Results" /\ s.analysis_complete
    THEN s.analyzed_text
    ELSE s.extracted_text

\* render_pdf_viewer: the 'Process PDF' button on an uploaded document
ClickProcessPDF(d, strategy, remote) ==
    \E r \in {PDFService_process_file(pdf, Upload(d), strategy, remote)} :
        /\ pdf' = r.svc
        /\ st' = IF r.outcome = "ok"
                 THEN [st EXCEPT !.extracted_text = Some(r.text), !.processing_complete = TRUE]
                 ELSE st
        /\ last' = [LastIdle EXCEPT !.op = "process_file", !.outcome = r.outcome, !.text = r.text,
                                    !.ui_error = IF r.outcome = "ok" THEN "" ELSE r.outcome,
                                    !.llm_request = r.request, !.llm_data = r.data]
        /\ UNCHANGED <<fmt, templates, lib, tts, temp_files, call>>

\* render_ai_options: the 'Analyze Text' button
ClickAnalyze(template_type, research_area, remote) ==
    \E r \in {PDFService_analyze_text(pdf, st.extracted_text.v, template_type,
                                      research_area, remote)} :
    LET base == [LastIdle EXCEPT !.op = "analyze"]
    IN  /\ IF AiOptionsHidden(st)
           THEN /\ last' = [base EXCEPT !.outcome = "NoTextAvailable"]
                /\ st' = st
           ELSE IF AnalysisSectionRaises(st)
           THEN /\ last' = [base EXCEPT !.outcome = "AttributeError", !.ui_error = "AttributeError"]
                /\ st' = st
           ELSE /\ last' = [base EXCEPT !.outcome = r.outcome, !.text = r.text,
                                        !.prompt = r.prompt, !.llm_request = r.request,
                                        !.ui_error = IF r.outcome = "ok"
                                                     THEN "AttributeError" ELSE r.outcome]
                /\ st' = IF r.outcome = "ok"
                         THEN [st EXCEPT !.analyzed_text = Some(r.text),
                                         !.analysis_complete = TRUE]
                         ELSE st
        /\ UNCHANGED <<fmt, templates, lib, pdf, tts, temp_files, call>>

\* render_ai_options: the "Audio Source" radio
SelectAudioSource(source) ==
    /\ ~AiOptionsHidden(st)
    /\ ~AnalysisSectionRaises(st)
    /\ st' = [st EXCEPT !.audio_source = source]
    /\ last' = [LastIdle EXCEPT !.op = "select_source", !.source = source, !.outcome = "ok"]
    /\ UNCHANGED <<fmt, templates, lib, pdf, tts, temp_files, call>>

\* render_ai_options: the 'Generate Audio' button
ClickGenerateAudio(remote) ==
    \E chosen \in {text_for_audio(st)} :
    \E r \in {TTSService_text_to_audio(tts, chosen.v, TRUE, remote)} :
    LET base == [LastIdle EXCEPT !.op = "generate_audio", !.source = st.audio_source]
    IN  /\ IF AiOptionsHidden(st) \/ GenerateAudioDisabled(st) \/ ~chosen.some
           THEN /\ last' = [base EXCEPT !.outcome = "NoTextAvailable"]
                /\ st' = st
                /\ temp_files' = temp_files
           ELSE IF AnalysisSectionRaises(st)
           THEN /\ last' = [base EXCEPT !.outcome = "AttributeError", !.ui_error = "AttributeError"]
                /\ st' = st
                /\ temp_files' = temp_files
           ELSE /\ temp_files + r.created <= MaxTempFiles
                /\ temp_files' = temp_files + r.created
                /\ last' = [base EXCEPT !.outcome = r.outcome, !.tts_request = r.request,
                                        !.ui_error = IF r.outcome = "ok" THEN "" ELSE r.outcome]
                /\ st' = IF r.outcome = "ok"
                         THEN [st EXCEPT !.audio_ready = TRUE, !.audio_data = Some(r.audio),
                                         !.timestamps = Some(r.timestamps)]
                         ELSE st
        /\ UNCHANGED <<fmt, templates, lib, pdf, tts, call>>

\* the largest number typed into the "Page Number" box
MaxPageInput == 3

\* render_pdf_viewer shows the page and the navigation buttons when a PDF has
\* been processed and get_page_image returns; its exception is caught and
\* shown, and the buttons are then not rendered
ViewerShowsPage(s, svc) ==
    s.processing_complete /\ PDFService_get_page_image(svc, s.current_page).outcome = "ok"

\* render_sidebar_config: the "Page Number" box, which has min_value=1 and
\* no max_value; its value is stored as current_page
InputPageNumber(page) ==
    /\ page >= 1
    /\ st' = [st EXCEPT !.current_page = page]
    /\ last' = [LastIdle EXCEPT !.op = "page_number", !.outcome = "ok"]
    /\ UNCHANGED <<fmt, templates, lib, pdf, tts, temp_files, call>>

\* render_pdf_viewer: the "Previous" button
ClickPrevious ==
    /\ ViewerShowsPage(st, pdf)
    /\ st' = IF st.current_page > 1
             THEN [st EXCEPT !.current_page = st.current_page - 1]
             ELSE st
    /\ last' = [LastIdle EXCEPT !.op = "previous", !.outcome = "ok"]
    /\ UNCHANGED <<fmt, templates, lib, pdf, tts, temp_files, call>>

\* render_pdf_viewer: the "Next" button
ClickNext ==
    /\ ViewerShowsPage(st, pdf)
    /\ st' = IF st.current_page < PDFService_get_total_pages(pdf).value
             THEN [st EXCEPT !.current_page = st.current_page + 1]
             ELSE st
    /\ last' = [LastIdle EXCEPT !.op = "next", !.outcome = "ok"]
    /\ UNCHANGED <<fmt, templates, lib, pdf, tts, temp_files, call>>

\* clear on both services of the session; neither removes a file
Clear ==
    /\ pdf' = PDFService_clear(pdf)
    /\ tts' = TTSService_clear(tts)
    /\ last' = [LastIdle EXCEPT !.op = "clear", !.outcome = "ok"]
    /\ UNCHANGED <<fmt, templates, lib, st, temp_files, call>>

-----------------------------------------------------------------------------
(* Direct calls of the core functions and of the services, as the tests make
   them *)

\* number of pages of a drawn document
MaxPages == 2

\* texts of a page: none, blank, text, text with blanks around it
PageTexts == {<<>>, <<" ">>, <<"a">>, <<"\t", "b", "\n">>}

\* what PdfReader gives for the drawn documents
Readers == [is_encrypted : BOOLEAN, pages : SeqsUpTo(PageTexts, MaxPages)]

\* strategy keys: the two known ones, one in upper case, an unknown one
Strategies == {"pypdf2", "llm", "LLM", "ocr"}

DirectFiles == {Upload(d) : d \in Docs} \cup {PathTo(d) : d \in Docs}

DirectTexts == {<<>>, <<"test text">>, <<"f(x) = ", "{", "x", "}">>, <<"{", "text", "}">>}

DirectPrompts == {<<"test prompt">>, <<"Process this: ", "{", "text", "}">>,
                  <<"{", "content", "}">>}

DirectTypes == AnalyzeTypes \cup {UiPT("QUICK_REVIEW")}

SpeechTexts == {<<>>, <<"Hello world">>}

\* PyPDF2Extractor().extract_text(file)
ExtractPyPDF2(reader) ==
    /\ call' = [op |-> "PyPDF2Extractor.extract_text", reader |-> reader,
                result |-> PyPDF2Extractor_extract_text(reader)]
    /\ UNCHANGED <<fmt, templates, lib, st, pdf, tts, last, temp_files>>

\* LLMExtractor(api_key).extract_text(file)
ExtractLLM(file, remote) ==
    /\ file.kind = "stream"
    /\ call' = [op |-> "LLMExtractor.extract_text", file |-> file, remote |-> remote,
                result |-> LLMExtractor_extract_text(pdf.llm_api_key, file, remote)]
    /\ UNCHANGED <<fmt, templates, lib, st, pdf, tts, last, temp_files>>

\* create_extractor(strategy, api_key=...)
CreateExtractor(strategy) ==
    /\ call' = [op |-> "create_extractor", strategy |-> strategy,
                result |-> create_extractor(strategy, pdf.llm_api_key)]
    /\ UNCHANGED <<fmt, templates, lib, st, pdf, tts, last, temp_files>>

\* PDFProcessor(strategy, llm_api_key=...).load_pdf(file); opened tells
\* whether the document was opened or read
LoadPdf(strategy, file, remote) ==
    \E made \in {PDFProcessor_init(strategy, pdf.llm_api_key)} :
    \E r \in {PDFProcessor_load_pdf(made, file, remote)} :
        /\ call' = [op |-> "PDFProcessor.load_pdf", strategy |-> strategy, file |-> file,
                    remote |-> remote, opened |-> (made.outcome = "ok"),
                    result |-> IF made.outcome = "ok"
                               THEN r
                               ELSE [outcome |-> made.outcome, text |-> <<>>,
                                     request |-> None, data |-> "none",
                                     extracted |-> FALSE]]
        /\ UNCHANGED <<fmt, templates, lib, st, pdf, tts, last, temp_files>>

\* GeminiService(api_key).process_text(text, prompt_template)
ProcessText(text, prompt_template, remote) ==
    /\ call' = [op |-> "GeminiService.process_text", text |-> text,
                prompt_template |-> prompt_template, remote |-> remote,
                result |-> GeminiService_process_text(text, prompt_template,
                                LlmResponse(pdf.llm_api_key, remote))]
    /\ UNCHANGED <<fmt, templates, lib, st, pdf, tts, last, temp_files>>

\* GeminiService(api_key).process_pdf(file, prompt_template)
ProcessPdf(file, prompt_template, remote) ==
    /\ file.kind = "stream"
    /\ call' = [op |-> "GeminiService.process_pdf", file |-> file,
                prompt_template |-> prompt_template, remote |-> remote,
                result |-> GeminiService_process_pdf(Read(file), prompt_template,
                                LlmResponse(pdf.llm_api_key, remote))]
    /\ UNCHANGED <<fmt, templates, lib, st, pdf, tts, last, temp_files>>

\* PDFService().analyze_text(text, template_type, research_area)
AnalyzeText(text, template_type, research_area, remote) ==
    /\ call' = [op |-> "PDFService.analyze_text", text |-> text,
                template_type |-> template_type, research_area |-> research_area,
                remote |-> remote,
                result |-> PDFService_analyze_text(pdf, text, template_type,
                                                   research_area, remote)]
    /\ UNCHANGED <<fmt, templates, lib, st, pdf, tts, last, temp_files>>

\* TTSService().text_to_audio(text, with_timestamps=...)
TextToAudio(text, with_timestamps, remote) ==
    \E r \in {TTSService_text_to_audio(tts, text, with_timestamps, remote)} :
        /\ temp_files + r.created <= MaxTempFiles
        /\ temp_files' = temp_files + r.created
        /\ call' = [op |-> "TTSService.text_to_audio", text |-> text,
                    with_timestamps |-> with_timestamps, result |-> r]
        /\ UNCHANGED <<fmt, templates, lib, st, pdf, tts, last>>

\* number of lines of a streamed response
MaxLines == 2

\* the fragments a chunk carries: none, an empty one, one or two elements
AudioFragments == {None, Some(<<>>), Some(<<"Wg==">>), Some(<<"QUJD", "QUI=">>)}
AlignmentFragments ==
    {None, Some(<<>>), Some(<< <<"H", 0, 1>> >>), Some(<< <<"i", 1, 2>>, <<"!", 2, 3>> >>)}

StreamLines ==
    {BlankLine} \cup {Chunk(a, t) : a \in AudioFragments, t \in AlignmentFragments}

\* TTSService().text_to_audio(text, with_timestamps=True) on the drawn
\* response
TextToAudioLines ==
    /\ call.op = "pending"
    /\ \E r \in {TTSService_text_to_audio_lines(tts, call.text, call.lines)} :
        /\ temp_files' = temp_files + r.created
        /\ call' = [op |-> "TTSService.text_to_audio(lines)", text |-> call.text,
                    lines |-> call.lines, result |-> r]
    /\ UNCHANGED <<fmt, templates, lib, st, pdf, tts, last>>

\* TTSService().text_to_speech(text) of src/core/tts_service.py
TextToSpeech(text) ==
    /\ call' = [op |-> "core.TTSService.text_to_speech", text |-> text,
                result |-> CoreTTSService_text_to_speech(text)]
    /\ UNCHANGED <<fmt, templates, lib, st, pdf, tts, last, temp_files>>

\* the processing_mode values that are drawn
ProcessingModes == {"summary", "study_guide"}

\* ProcessingService().process_pdf_to_audio(pdf_file, processing_mode)
ProcessPdfToAudio(pdf_file, processing_mode) ==
    /\ call' = [op |-> "ProcessingService.process_pdf_to_audio", file |-> pdf_file,
                mode |-> processing_mode,
                result |-> ProcessingService_process_pdf_to_audio(pdf_file, processing_mode)]
    /\ UNCHANGED <<fmt, templates, lib, st, pdf, tts, last, temp_files>>

\* TTSService().clear()
ClearTts ==
    /\ tts' = TTSService_clear(tts)
    /\ call' = [op |-> "TTSService.clear"]
    /\ UNCHANGED <<fmt, templates, lib, st, pdf, last, temp_files>>

\* PDFService().process_file(file, extraction_strategy)
ProcessFile(file, strategy, remote) ==
    \E r \in {PDFService_process_file(pdf, file, strategy, remote)} :
        /\ pdf' = r.svc
        /\ call' = [op |-> "PDFService.process_file", file |-> file, strategy |-> strategy,
                    result |-> [outcome |-> r.outcome, text |-> r.text, request |-> r.request,
                                data |-> r.data, file |-> r.file]]
        /\ UNCHANGED <<fmt, templates, lib, st, tts, last, temp_files>>

\* PDFService().clear()
ClearPdf ==
    /\ pdf' = PDFService_clear(pdf)
    /\ call' = [op |-> "PDFService.clear"]
    /\ UNCHANGED <<fmt, templates, lib, st, tts, last, temp_files>>

-----------------------------------------------------------------------------
(* Specifications *)

\* what call holds when no direct call has been made
CallIdle == [op |-> "none"]

\* the session part of the state where only the library is exercised
SessionIdle ==
    /\ st = initialize_session_state
    /\ pdf = PDFService_init(NoKey)
    /\ tts = TTSService_init(NoKey)
    /\ last = LastIdle
    /\ temp_files = 0
    /\ call = CallIdle

InitFormat ==
    /\ fmt \in [template : DrawnTemplates, kwargs : Kwargs(ArgNames, ArgValues),
                result : {FmtPending}]
    /\ templates = PromptLibrary_init
    /\ lib = LibIdle
    /\ SessionIdle

NextFormat == ApplyFormat

SpecFormat == InitFormat /\ [][NextFormat]_vars

InitLib ==
    /\ fmt = FmtIdle
    /\ templates = PromptLibrary_init
    /\ lib = LibIdle
    /\ SessionIdle

NextLib ==
    \/ \E k \in PromptType \cup OtherKeys \cup UiPromptType : GetTemplate(k)
    \/ \E k \in AddKeys, x \in AddTemplates : AddTemplate(k, x)
    \/ ListTemplates
    \/ \E k \in PromptType \cup OtherKeys, kw \in Kwargs(ArgNames, {<<"v">>}) : FormatTemplate(k, kw)

SpecLib == InitLib /\ [][NextLib]_vars

Init ==
    /\ fmt = FmtIdle
    /\ templates = PromptLibrary_init
    /\ lib = LibIdle
    /\ st = initialize_session_state
    /\ pdf \in {PDFService_init(k) : k \in {NoKey, "gemini-key"}}
    /\ tts = TTSService_init("elevenlabs-key")
    /\ last = LastIdle
    /\ temp_files = 0
    /\ call = CallIdle

Next ==
    \/ \E d \in Docs, strategy \in UiStrategies, remote \in RemoteOutcomes :
            ClickProcessPDF(d, strategy, remote)
    \/ \E t \in AnalyzeTypes, a \in ResearchAreas, remote \in RemoteOutcomes :
            ClickAnalyze(t, a, remote)
    \/ \E source \in AudioSources : SelectAudioSource(source)
    \/ \E remote \in TtsRemoteOutcomes : ClickGenerateAudio(remote)
    \/ Clear

Spec == Init /\ [][Next]_vars

\* direct calls of the core functions, of analyze_text and of the TTS service
InitCore ==
    /\ fmt = FmtIdle
    /\ templates = PromptLibrary_init
    /\ lib = LibIdle
    /\ st = initialize_session_state
    /\ \E k \in {"none", "set"} :
            /\ pdf = PDFService_init(IF k = "set" THEN "gemini-key" ELSE NoKey)
            /\ tts = TTSService_init(IF k = "set" THEN "elevenlabs-key" ELSE NoKey)
    /\ last = LastIdle
    /\ temp_files = 0
    /\ call = CallIdle

NextCore ==
    \/ \E reader \in Readers : ExtractPyPDF2(reader)
    \/ \E file \in DirectFiles, remote \in RemoteOutcomes : ExtractLLM(file, remote)
    \/ \E strategy \in Strategies : CreateExtractor(strategy)
    \/ \E strategy \in Strategies, file \in DirectFiles \cup {NoFile, NotAFile},
          remote \in RemoteOutcomes : LoadPdf(strategy, file, remote)
    \/ \E text \in DirectTexts, p \in DirectPrompts, remote \in RemoteOutcomes :
            ProcessText(text, p, remote)
    \/ \E file \in DirectFiles, p \in {None} \cup {Some(x) : x \in DirectPrompts},
          remote \in RemoteOutcomes : ProcessPdf(file, p, remote)
    \/ \E text \in DirectTexts, t \in DirectTypes, a \in ResearchAreas,
          remote \in RemoteOutcomes : AnalyzeText(text, t, a, remote)
    \/ \E text \in SpeechTexts, w \in BOOLEAN, remote \in TtsRemoteOutcomes :
            TextToAudio(text, w, remote)
    \/ \E text \in SpeechTexts : TextToSpeech(text)
    \/ \E file \in DirectFiles \cup {NoFile, NotAFile}, mode \in ProcessingModes :
            ProcessPdfToAudio(file, mode)
    \/ ClearTts

SpecCore == InitCore /\ [][NextCore]_vars

\* direct calls of the PDFService
InitPdf ==
    /\ fmt = FmtIdle
    /\ templates = PromptLibrary_init
    /\ lib = LibIdle
    /\ st = initialize_session_state
    /\ pdf \in {PDFService_init(k) : k \in {NoKey, "gemini-key"}}
    /\ tts = TTSService_init(NoKey)
    /\ last = LastIdle
    /\ temp_files = 0
    /\ call = CallIdle

NextPdf ==
    \/ \E file \in DirectFiles \cup {NoFile}, strategy \in Strategies,
          remote \in RemoteOutcomes : ProcessFile(file, strategy, remote)
    \/ ClearPdf

SpecPdf == InitPdf /\ [][NextPdf]_vars

\* calls of text_to_audio with timestamps on drawn responses
InitStream ==
    /\ fmt = FmtIdle
    /\ templates = PromptLibrary_init
    /\ lib = LibIdle
    /\ st = initialize_session_state
    /\ pdf = PDFService_init(NoKey)
    /\ tts \in {TTSService_init(k) : k \in {NoKey, "elevenlabs-key"}}
    /\ last = LastIdle
    /\ temp_files = 0
    /\ call \in [op : {"pending"}, text : {<<"Hello world">>},
                 lines : SeqsUpTo(StreamLines, MaxLines)]

NextStream == TextToAudioLines

SpecStream == InitStream /\ [][NextStream]_vars

\* the session with the PDF viewer: documents are processed and paged through
NextViewer ==
    \/ \E d \in Docs, strategy \in UiStrategies, remote \in RemoteOutcomes :
            ClickProcessPDF(d, strategy, remote)
    \/ \E page \in 1..MaxPageInput : InputPageNumber(page)
    \/ ClickPrevious
    \/ ClickNext

SpecViewer == Init /\ [][NextViewer]_vars

-----------------------------------------------------------------------------
(* Properties of the prompt template library *)

\* The replacement fields of a body in scanning order, each given by its name,
\* up to the first place where the scan cannot go on: a malformed brace, a
\* field without a name, or a field with a format spec.  complete tells
\* whether the scan reached the end of the body.
RECURSIVE Placeholders(_, _)
Placeholders(b, i) ==
    IF i > Len(b) THEN [fields |-> <<>>, complete |-> TRUE]
    ELSE IF b[i] \in {"{", "}"} /\ i < Len(b) /\ b[i + 1] = b[i] THEN Placeholders(b, i + 2)
    ELSE IF b[i] = "}" THEN [fields |-> <<>>, complete |-> FALSE]
    ELSE IF b[i] = "{" THEN
        LET j == MatchClose(b, i + 1, 1)
            inner == SubSeq(b, i + 1, j - 1)
            c == FirstColon(inner, 1)
            name == SubSeq(inner, 1, c - 1)
        IN  IF j = 0 \/ name = <<>> \/ Range(name) \cap {"{", "}"} # {}
            THEN [fields |-> <<>>, complete |-> FALSE]
            ELSE IF c < Len(inner)
            THEN [fields |-> <<name>>, complete |-> FALSE]
            ELSE LET rest == Placeholders(b, j + 1)
                 IN  [fields |-> <<name>> \o rest.fields, complete |-> rest.complete]
    ELSE Placeholders(b, i + 1)

Supplied(name, kw) == Len(name) = 1 /\ name[1] \in DOMAIN kw

Min(S) == CHOOSE x \in S : \A y \in S : x <= y

Occurs(v, s) == \E i \in 0..(Len(s) - Len(v)) : SubSeq(s, i + 1, i + Len(v)) = v

\* C1: every template registered by a fresh PromptLibrary has a non-empty
\* description and formats without error when it is given a value for every
\* name of its parameters mapping.
C1_RegisteredTemplatesFormat ==
    (lib.op = "format" /\ lib.n_adds = 0 /\ lib.key \in PromptType
        /\ DOMAIN lib.kwargs = DOMAIN lib.template.parameters)
    => /\ lib.outcome = "ok"
       /\ lib.template.description # ""
       /\ lib.result.kind = "ok"

\* C2: when the scan of the body reaches a named placeholder that has no
\* supplied value, format raises the ValueError "Missing required parameter"
\* naming the first such placeholder; when format returns a string, every
\* placeholder was supplied and its value is in the string.
C2_MissingParameterNamed ==
    fmt.result.kind # "pending" =>
        LET P == Placeholders(fmt.template.template, 1).fields
            missing == {i \in 1..Len(P) : ~Supplied(P[i], fmt.kwargs)}
        IN  /\ missing # {} =>
                /\ fmt.result.kind = "ValueError"
                /\ fmt.result.msg = "Missing required parameter"
                /\ fmt.result.name = P[Min(missing)]
            /\ fmt.result.kind = "ok" =>
                /\ missing = {}
                /\ Placeholders(fmt.template.template, 1).complete
                /\ \A i \in 1..Len(P) : Occurs(fmt.kwargs[P[i][1]], fmt.result.out)

\* the call of test_prompt_template_missing_parameter: the second placeholder
\* of the fixture is the one without a value
C2_Witness ==
    /\ fmt.template = TestTemplate
    /\ DOMAIN fmt.kwargs = {"content"}
    /\ fmt.result.kind = "ValueError"
    /\ fmt.result.name = <<"research_area">>

\* C3: for a body of literal text and named placeholders, a call that supplies
\* every placeholder and more returns the string that the call with exactly
\* the placeholders' values returns.
C3_ExtraValuesIgnored ==
    fmt.result.kind # "pending" =>
        LET sc == Placeholders(fmt.template.template, 1)
            req == {sc.fields[i][1] : i \in 1..Len(sc.fields)}
        IN  (sc.complete /\ (\A i \in 1..Len(sc.fields) : Len(sc.fields[i]) = 1)
                /\ req \subseteq DOMAIN fmt.kwargs)
            => /\ fmt.result.kind = "ok"
               /\ fmt.result = PromptTemplate_format(fmt.template, [n \in req |-> fmt.kwargs[n]])

\* research_area (and more) passed to a template that only references content
C3_Witness ==
    /\ fmt.template = PromptLibrary_init[PT("QUICK_REVIEW")]
    /\ DOMAIN fmt.kwargs = {"content", "research_area", "extra"}
    /\ fmt.result.kind = "ok"
    /\ Occurs(fmt.kwargs["content"], fmt.result.out)

\* C4: get_template returns the template registered under the key when there
\* is one and raises "Unknown prompt type" for every other key; it never
\* answers with a default or with another key's template.
C4_GetTemplateExact ==
    lib.op = "get_template" =>
        IF lib.key \in DOMAIN templates
        THEN lib.outcome = "ok" /\ lib.template = templates[lib.key]
        ELSE lib.outcome = "ValueError: Unknown prompt type" /\ lib.template = NoTemplate

\* a member of the other PromptType enumeration, named like a registered key
C4_Witness ==
    /\ lib.op = "get_template"
    /\ lib.key = UiPT("QUICK_REVIEW")
    /\ PT("QUICK_REVIEW") \in DOMAIN templates
    /\ lib.outcome = "ValueError: Unknown prompt type"

\* C5: add_template(t, x) succeeds whatever x is; afterwards get_template(t)
\* returns x and every other key has the template it had before.
C5_AddTemplateUpserts ==
    [][lib'.op = "add_template" =>
        /\ lib'.outcome = "ok"
        /\ PromptLibrary_get_template(templates', lib'.key) =
               [outcome |-> "ok", template |-> lib'.template]
        /\ DOMAIN templates' = DOMAIN templates \cup {lib'.key}
        /\ \A j \in DOMAIN templates \ {lib'.key} : templates'[j] = templates[j]]_vars

\* a registered key replaced by a template whose parameters mapping and body disagree
C5_Witness ==
    /\ lib.op = "add_template"
    /\ lib.key = PT("QUICK_REVIEW")
    /\ lib.template = InconsistentTemplate
    /\ templates[lib.key] = InconsistentTemplate
    /\ templates[PT("BIBLIOGRAPHY")] = PromptLibrary_init[PT("BIBLIOGRAPHY")]

\* C6: list_templates returns exactly the keys get_template succeeds for, each
\* with the description of the template get_template returns.
C6_ListMatchesRegistry ==
    lib.op = "list_templates" =>
        /\ DOMAIN lib.listing = DOMAIN templates
        /\ \A k \in DOMAIN lib.listing \cap DOMAIN templates :
               lib.listing[k] = templates[k].description

-----------------------------------------------------------------------------
(* Properties of the session *)

C8_ReprocessResetsSession ==
    [][(last'.op = "process_file" /\ last'.outcome = "ok" /\ st.processing_complete)
        => /\ st'.extracted_text = Some(last'.text)
           /\ PDFService_get_extracted_text(pdf') = Some(last'.text)
           /\ st'.analyzed_text = None
           /\ ~st'.analysis_complete
           /\ st'.audio_data = None
           /\ ~st'.audio_ready
           /\ st'.timestamps = None]_vars

C10_ClearReturnsToIdle ==
    last.op = "clear" =>
        /\ PDFService_get_extracted_text(pdf) = None
        /\ PDFService_get_total_pages(pdf).outcome = "PDFAudioError"
        /\ \A n \in 1..2 : PDFService_get_page_image(pdf, n).outcome = "PDFAudioError"
        /\ tts.current_audio = None /\ tts.current_timestamps = None
        /\ st.analyzed_text = None
        /\ st.audio_data = None
        /\ st.timestamps = None

\* C11: every temporary audio file a synthesis call of the session created,
\* successful or failed, is released once clear has run: after clear no
\* temporary audio file of the session exists.
C11_ClearReleasesTempAudio ==
    last.op = "clear" => temp_files = 0

-----------------------------------------------------------------------------
(* Properties of the core functions and of the services called directly *)

\* C13: with the credential of the remote service missing, analyze_text and
\* text_to_audio fail with a configuration error and no request is made to
\* the remote service.
C13_MissingKeyFailsBeforeRemote ==
    /\ (call.op = "TTSService.text_to_audio" /\ tts.tts_api_key = NoKey)
            => /\ call.result.outcome = "ConfigurationError"
               /\ call.result.request = None
    /\ (call.op = "PDFService.analyze_text" /\ pdf.llm_api_key = NoKey)
            => /\ call.result.outcome = "ConfigurationError"
               /\ call.result.request = None

\* C14: byte-level extraction of an encrypted document fails with
\* TextExtractionError, reads no page and returns no text, whatever its
\* pages hold.
C14_EncryptedNeverExtracted ==
    (call.op = "PyPDF2Extractor.extract_text" /\ call.reader.is_encrypted)
        => /\ call.result.outcome = "TextExtractionError"
           /\ call.result.pages_read = 0
           /\ call.result.text = <<>>

\* an encrypted document with a page of text was refused
C14_Witness ==
    /\ call.op = "PyPDF2Extractor.extract_text"
    /\ call.reader.is_encrypted
    /\ \E i \in 1..Len(call.reader.pages) : call.reader.pages[i] = <<"a">>
    /\ call.result.outcome = "TextExtractionError"

\* the characters str.strip() removes
Whitespace == {" ", "\n", "\t", ""}

\* no page holds a character that is not whitespace
Blank(pages) == \A i \in 1..Len(pages) : \A k \in 1..Len(pages[i]) : pages[i][k] \in Whitespace

\* where page i starts in the text of the pages joined by one separator
RECURSIVE Offset(_, _)
Offset(pages, i) == IF i = 1 THEN 0 ELSE Offset(pages, i - 1) + Len(pages[i - 1]) + 1

\* C15: byte-level extraction of an unencrypted document fails with
\* TextExtractionError exactly when no page holds a non-whitespace character
\* (a document without pages included); otherwise it returns the texts of
\* the pages in page order with one newline between two pages.
C15_ExtractionJoinsPages ==
    (call.op = "PyPDF2Extractor.extract_text" /\ ~call.reader.is_encrypted)
        => LET pages == call.reader.pages
               n == Len(pages)
               text == call.result.text
           IN  /\ call.result.outcome \in {"ok", "TextExtractionError"}
               /\ call.result.outcome = "TextExtractionError" <=> Blank(pages)
               /\ call.result.outcome = "ok" =>
                    /\ Len(text) = Offset(pages, n) + Len(pages[n])
                    /\ \A i \in 1..n :
                        /\ SubSeq(text, Offset(pages, i) + 1, Offset(pages, i) + Len(pages[i]))
                                = pages[i]
                        /\ i > 1 => text[Offset(pages, i)] = "\n"

\* two pages, the first one blank, extracted
C15_Witness ==
    /\ call.op = "PyPDF2Extractor.extract_text"
    /\ ~call.reader.is_encrypted
    /\ Len(call.reader.pages) = 2
    /\ call.reader.pages[1] = <<" ">>
    /\ call.result.outcome = "ok"
    /\ call.result.text = <<" ", "\n", "a">>

\* C16: process_file with an unrecognized strategy key fails with the
\* unknown-strategy error before the document is read and before the
\* loaded document, the page count or the extracted text change.
C16_UnknownStrategyBeforeIO ==
    [][(call'.op = "PDFService.process_file"
            /\ Lower(call'.strategy) \notin {"pypdf2", "llm"})
        => /\ call'.result.outcome = "ValueError: Unknown extraction strategy"
           /\ ~call'.result.file.consumed
           /\ pdf'.pdf_document = pdf.pdf_document
           /\ pdf'.total_pages = pdf.total_pages
           /\ pdf'.extracted_text = pdf.extracted_text]_vars

\* C17: when process_file extracts with the remote-generation strategy, the
\* document-mode call to the generation service carries the complete bytes of
\* the supplied document and the extractor's fixed instruction, and the text
\* returned is the remote service's text, for a path and for a stream.
C17_LLMExtractionSendsDocument ==
    (call.op = "PDFService.process_file" /\ call.result.request.some)
        => /\ call.result.data = call.file.doc
           /\ call.result.request = Some(extraction_prompt)
           /\ call.result.outcome = "ok"
                => call.result.text = GeneratedText(extraction_prompt)

\* C18: process_text and process_pdf fail with the empty-response error
\* kind (LLMError) when the remote call returns no text and with the
\* remote-call error kind (LLMAPIError) when the remote call fails, two kinds
\* the caller can tell apart; a non-empty remote text is returned unchanged.
C18_EmptyAndRemoteErrorsDistinct ==
    (call.op \in {"GeminiService.process_text", "GeminiService.process_pdf"}
            /\ call.result.request.some /\ pdf.llm_api_key # NoKey)
        => /\ call.remote = "empty" => call.result.outcome = "LLMError"
           /\ call.remote = "error" => call.result.outcome = "LLMAPIError"
           /\ call.remote = "text" =>
                /\ call.result.outcome = "ok"
                /\ call.result.text = GeneratedText(call.result.request.v)

\* C19: analyze_text sends to the generation service the selected template
\* formatted once with content = the text and research_area = the area
\* ("general research" when none is given), for every text and every
\* registered template that formats; the prompt holds the literal text and
\* the literal area.
C19_AnalyzeSendsFormattedTemplate ==
    (call.op = "PDFService.analyze_text" /\ call.template_type \in DOMAIN templates)
        => LET area == IF call.research_area = <<>> THEN <<"general research">>
                       ELSE call.research_area
               expected == PromptTemplate_format(templates[call.template_type],
                               [n \in {"content", "research_area"} |->
                                    IF n = "content" THEN call.text ELSE area])
           IN  expected.kind = "ok"
                => /\ call.result.request = Some(expected.out)
                   /\ Occurs(call.text, call.result.request.v)

\* C20: text_to_audio of an empty text, with or without timestamps, fails
\* with the empty-input error kind and sends no request to the synthesis
\* service.
C20_EmptyTextNotSynthesized ==
    (call.op = "TTSService.text_to_audio" /\ call.text = <<>>)
        => /\ call.result.outcome = "AudioGenerationError"
           /\ call.result.request = None

-----------------------------------------------------------------------------
(* Properties of synthesis, of error propagation and of the services *)

\* the decoded audio of the chunks of lines[1..n], in the order of the lines
RECURSIVE AudioUpTo(_, _)
AudioUpTo(lines, n) ==
    IF n = 0 THEN <<>>
    ELSE AudioUpTo(lines, n - 1) \o
         (IF lines[n].audio_base64.some THEN b64decode(lines[n].audio_base64.v) ELSE <<>>)

\* the alignment elements of the chunks of lines[1..n], in the order of the lines
RECURSIVE AlignmentUpTo(_, _)
AlignmentUpTo(lines, n) ==
    IF n = 0 THEN <<>>
    ELSE AlignmentUpTo(lines, n - 1) \o
         (IF lines[n].alignment.some THEN lines[n].alignment.v ELSE <<>>)

ExtractionKinds == {"TextExtractionError", "ValidationError"}
GenerationKinds == {"LLMAPIError", "LLMProcessingError"}
SynthesisKinds == {"TTSAPIError", "AudioGenerationError"}
GenericKinds == {"TTSError", "LLMError", "PDFAudioError"}

\* C22: a failure of a stage reaches the caller as an error of a kind of that
\* stage (the unexpected failure wrapped, its original kept), and a failure
\* that already has a stage-specific kind reaches the caller with that kind,
\* never with a generic one (TTSError, LLMError, PDFAudioError).  Stated on
\* the kinds, for the extractors and load_pdf, process_text and process_pdf,
\* and text_to_audio.
C22_StageErrorsKeepKind ==
    /\ call.op \in {"PyPDF2Extractor.extract_text", "LLMExtractor.extract_text"} =>
            call.result.outcome \in {"ok"} \cup ExtractionKinds
    /\ (call.op = "PDFProcessor.load_pdf" /\ call.opened) =>
            call.result.outcome \in {"ok"} \cup ExtractionKinds
    /\ call.op \in {"GeminiService.process_text", "GeminiService.process_pdf"} =>
            call.result.outcome \in {"ok"} \cup GenerationKinds
    /\ call.op = "TTSService.text_to_audio" =>
            /\ call.result.outcome \notin GenericKinds \ {"TTSError"}
            /\ call.result.caught \in SynthesisKinds =>
                    call.result.outcome = call.result.caught

\* C23: load_pdf on None, or on an object that is neither a path nor has a
\* read method, fails with ValidationError, not with TextExtractionError or
\* PDFAudioError, and the extractor is not invoked (no page is read, no
\* request is sent).
C23_InvalidInputIsValidationError ==
    (/\ call.op = "PDFProcessor.load_pdf"
     /\ call.opened
     /\ call.file \in {NoFile, NotAFile}) =>
        /\ call.result.outcome = "ValidationError"
        /\ ~call.result.extracted
        /\ call.result.request = None

\* load_pdf of a processor with the LLM extractor and a key was given an
\* object without a read method
C23_Witness ==
    /\ call.op = "PDFProcessor.load_pdf"
    /\ call.opened
    /\ call.file = NotAFile
    /\ call.strategy = "llm"
    /\ pdf.llm_api_key # NoKey
    /\ call.remote = "text"
    /\ call.result.outcome = "ValidationError"

\* C24: process_file called with None in place of the document fails with
\* ValidationError, the kind load_pdf reports for None, and leaves the
\* extracted text and the loaded document of the service as they were.
C24_NullFileIsValidationError ==
    [][(call'.op = "PDFService.process_file" /\ call'.file = NoFile)
        => /\ call'.result.outcome = "ValidationError"
           /\ pdf'.extracted_text = pdf.extracted_text
           /\ pdf'.pdf_document = pdf.pdf_document]_vars

\* C25: a call of process_text, process_pdf, text_to_speech or
\* text_to_speech_with_timestamps (the latter two through text_to_audio)
\* issues at most one remote request, whether the request succeeds, fails or
\* returns nothing; a failure is raised after that one request.
C25_OneRequestPerCall ==
    /\ call.op \in {"GeminiService.process_text", "GeminiService.process_pdf",
                    "LLMExtractor.extract_text", "TTSService.text_to_audio"} =>
            /\ call.result.attempts <= 1
            /\ call.result.request.some <=> call.result.attempts = 1
    /\ (/\ call.op \in {"GeminiService.process_text", "GeminiService.process_pdf"}
        /\ call.result.attempts = 1
        /\ call.remote # "text") => call.result.outcome = "LLMAPIError"

\* an operation was called with a key, and its one request failed or returned
\* nothing
C25_Witness ==
    \/ /\ call.op = "GeminiService.process_text"
       /\ pdf.llm_api_key # NoKey /\ call.remote = "error"
       /\ call.result.attempts = 1 /\ call.result.outcome = "LLMAPIError"
    \/ /\ call.op = "GeminiService.process_pdf"
       /\ pdf.llm_api_key # NoKey /\ call.remote = "empty"
       /\ call.result.attempts = 1 /\ call.result.outcome = "LLMAPIError"
    \/ /\ call.op = "TTSService.text_to_audio"
       /\ tts.tts_api_key # NoKey
       /\ call.result.attempts = 1 /\ call.result.outcome = "TTSError"

\* the stages of the pipeline, in their order
PipelineStages == <<"extraction", "generation", "synthesis">>

\* C26: process_pdf_to_audio calls extraction, generation and synthesis in
\* that order, each at most once, each on the output of the stage before it;
\* when a stage fails no later stage is called and the caller receives a
\* PDFAudioError: the kind the failing stage raised when that is one,
\* otherwise the generic PDFAudioError with the exception as original_error.
C26_PipelineInOrder ==
    call.op = "ProcessingService.process_pdf_to_audio" =>
        LET r == call.result
            n == Len(r.stages)
        IN  /\ n \in 1..3
            /\ r.stages = SubSeq(PipelineStages, 1, n)
            /\ n >= 2 => (r.extracted.some /\ r.llm_input = r.extracted)
            /\ n >= 3 => (r.generated.some /\ r.tts_input = r.generated)
            /\ r.outcome = "ok" <=> (n = 3 /\ r.raised = "ok")
            /\ (call.file.kind \in {"stream", "path"} /\ r.extracted.some) =>
                    r.extracted.v = Join(DocPages(call.file.doc))
            /\ r.outcome # "ok" =>
                /\ r.outcome \in PDFAudioErrorKinds
                /\ r.raised \in PDFAudioErrorKinds => r.outcome = r.raised
                /\ r.raised \notin PDFAudioErrorKinds =>
                        (r.outcome = "PDFAudioError" /\ r.original_error = r.raised)
                /\ n < 3 => r.tts_input = None
                /\ n < 2 => r.llm_input = None

\* the pipeline ran on a document without text: extraction failed with its
\* own kind and nothing else was called
C26_Witness ==
    /\ call.op = "ProcessingService.process_pdf_to_audio"
    /\ call.file = Upload("d3")
    /\ call.result.outcome = "TextExtractionError"
    /\ call.result.stages = <<"extraction">>

\* the pipeline ran to its end on a document with text
C26_WitnessDone ==
    /\ call.op = "ProcessingService.process_pdf_to_audio"
    /\ call.result.outcome = "ok"
    /\ call.result.stages = PipelineStages
    /\ call.result.tts_input = Some(<<"Processed text">>)

\* C27: the PromptType enumeration that the service and the UI import is the
\* enumeration of the registry's keys: get_template succeeds for each of its
\* members, the service's default current_template included, and every key
\* that PromptLibrary registers is one of its members.
C27_ServiceTypesAreRegistryKeys ==
    /\ (lib.op = "get_template" /\ lib.key \in UiPromptType) => lib.outcome = "ok"
    /\ PromptLibrary_get_template(templates, pdf.current_template).outcome = "ok"
    /\ \A k \in DOMAIN PromptLibrary_init : k \in UiPromptType

\* C28: after every call on a PDFService, get_extracted_text and the
\* document behind get_total_pages and get_page_image come from the same
\* process_file call or are both absent (with PyPDF2 the text is that of the
\* loaded document); a process_file call that fails leaves the extracted
\* text, the loaded document and the page count as they were.
C28_TextAndDocumentAgree ==
    [][call'.op \in {"PDFService.process_file", "PDFService.clear"}
        => /\ PDFService_get_extracted_text(pdf').some
                <=> PDFService_get_total_pages(pdf').outcome = "ok"
           /\ (PDFService_get_extracted_text(pdf').some /\ pdf'.processor = "PyPDF2Extractor")
                => PDFService_get_extracted_text(pdf').v = Join(DocPages(pdf'.pdf_document))
           /\ (call'.op = "PDFService.process_file" /\ call'.result.outcome # "ok")
                => /\ pdf'.extracted_text = pdf.extracted_text
                   /\ pdf'.pdf_document = pdf.pdf_document
                   /\ pdf'.total_pages = pdf.total_pages]_vars

\* C29: without a generation key, extraction with a strategy key that
\* create_extractor resolves to the LLM extractor (any casing of "llm") fails
\* before an LLMExtractor is made and before any remote call, in process_file
\* and in the construction of a PDFProcessor.
C29_NoKeyNoRemoteExtractor ==
    (/\ call.op = "PDFService.process_file"
     /\ call.file # NoFile
     /\ Lower(call.strategy) = "llm"
     /\ pdf.llm_api_key = NoKey) =>
        /\ call.result.outcome # "ok"
        /\ call.result.request = None
        /\ pdf.processor # "LLMExtractor"
        /\ PDFProcessor_init(call.strategy, NoKey).outcome # "ok"

\* C30: whenever a document is loaded in the session, current_page is within
\* 1..total_pages of that document, after any Previous and Next clicks, page
\* numbers typed and documents processed; so the viewer never asks
\* get_page_image for a page outside the loaded document.
C30_CurrentPageInDocument ==
    /\ pdf.pdf_document # NoDoc => st.current_page \in 1..pdf.total_pages
    /\ st.processing_complete =>
            PDFService_get_page_image(pdf, st.current_page).outcome = "ok"

====
